---- MODULE Spec2Model ----
(***************************************************************************)
(* Model of the Venice chat-completions adapter: VeniceClient.responses,   *)
(* VeniceClient.formatMessages and VeniceClient.filterThinkTags.           *)
(*                                                                         *)
(* The repository holds three implementations of VeniceClient:             *)
(*   "inline"         codex-cli/src/utils/venice/client.ts, lines 26-230:  *)
(*                    messages are normalised inside responses, the body   *)
(*                    of responses is wrapped in try/catch;                *)
(*   "formatMessages" codex-cli/src/utils/venice/client.ts, lines 257-504: *)
(*                    normalisation is the method formatMessages, the      *)
(*                    stream decoder reads delta.content or                *)
(*                    message.content, everything is wrapped in try/catch; *)
(*   "part_000"       unnamed/part_000: inline normalisation, no try/catch,*)
(*                    the response id is a const.                          *)
(* The variable variant selects the implementation a behaviour runs.       *)
(*                                                                         *)
(* Strings are sequences of tokens (a token is one character or one        *)
(* literal such as "<think>").                                             *)
(***************************************************************************)
EXTENDS Integers, Sequences, FiniteSets, TLC

VARIABLES
  variant,       \* the implementation that runs
  pc,            \* where responses is suspended
  params,        \* the argument of responses, while it is still read
  request,       \* the body of the POST in flight
  response,      \* what fetch resolved with
  now,           \* the last value Date.now() returned
  buffer,        \* let buffer: the unterminated tail of the text read
  lines,         \* the lines of the current chunk the for loop has yet to visit
  lineKind,      \* the class of the line the for loop visited last
  responseId,    \* let/const responseId
  isFirstChunk,  \* let isFirstChunk
  nReads,        \* the number of chunks reader.read() has delivered
  events,        \* the events yielded so far
  raised,        \* the error responses threw, if any
  raw,           \* a text handed to filterThinkTags
  filtered,      \* what filterThinkTags returned for it
  wire,          \* the whole text of a streamed body the transport cuts up
  wirePos,       \* how much of wire reader.read() has delivered
  other          \* the locals of a second, suspended invocation of responses

vars == <<variant, pc, params, request, response, now, buffer, lines, lineKind,
          responseId, isFirstChunk, nReads, events, raised,
          raw, filtered, wire, wirePos, other>>

\* What a single run of responses on an arbitrary transport leaves alone.
apart == <<raw, filtered, wire, wirePos, other>>

\* ------------------------------------------------------------ bounds
\* Largest number of input items of one call.
MaxItems == 2
\* Largest number of body chunks reader.read() delivers before it reports done.
MaxReads == 2
\* Largest value of Date.now() (the clock starts at 0).
MaxClock == 1

\* ------------------------------------------------------------ variants
V_INLINE == "inline"
V_FORMAT == "formatMessages"
V_PART == "part_000"
Variants == {V_INLINE, V_FORMAT, V_PART}

\* Whether responses wraps its work in try { ... } catch (error) { yield ... }.
HasCatch(v) == v \in {V_INLINE, V_FORMAT}

\* ------------------------------------------------------------ strings
\* String.prototype.trim(): whitespace tokens removed at both ends.
IsWs(t) == t \in {" ", "\n", "\r"}

RECURSIVE trimStart(_)
trimStart(s) ==
  IF s = <<>> THEN <<>>
  ELSE IF IsWs(Head(s)) THEN trimStart(Tail(s)) ELSE s

RECURSIVE trimEnd(_)
trimEnd(s) ==
  IF s = <<>> THEN <<>>
  ELSE IF IsWs(s[Len(s)]) THEN trimEnd(SubSeq(s, 1, Len(s) - 1)) ELSE s

trim(s) == trimEnd(trimStart(s))

\* text.replace(/<think>[\s\S]*<\/think>/g, ""): the greedy match, from the
\* first opening marker that has a closing marker after it to the last
\* closing marker of the text.
filterThinkTagsGreedy(text) ==
  LET Opens == {o \in 1..Len(text) :
                  /\ text[o] = "<think>"
                  /\ \E c \in (o + 1)..Len(text) : text[c] = "</think>"}
  IN IF Opens = {} THEN text
     ELSE LET o == CHOOSE k \in Opens : \A m \in Opens : k <= m
              c == CHOOSE k \in 1..Len(text) :
                     /\ text[k] = "</think>"
                     /\ \A m \in (k + 1)..Len(text) : text[m] # "</think>"
          IN SubSeq(text, 1, o - 1) \o SubSeq(text, c + 1, Len(text))

\* text.replace(/<think>[\s\S]*?<\/think>/g, ""): scanning from the left, an
\* opening marker that has a closing marker after it is removed together with
\* everything up to the nearest closing marker; anything else is kept.
RECURSIVE filterFrom(_, _)
filterFrom(text, i) ==
  IF i > Len(text) THEN <<>>
  ELSE IF text[i] = "<think>" /\ \E j \in (i + 1)..Len(text) : text[j] = "</think>"
       THEN LET j == CHOOSE k \in (i + 1)..Len(text) :
                       /\ text[k] = "</think>"
                       /\ \A m \in (i + 1)..(k - 1) : text[m] # "</think>"
            IN filterFrom(text, j + 1)
       ELSE <<text[i]>> \o filterFrom(text, i + 1)

filterThinkTags(text) == filterFrom(text, 1)

\* ------------------------------------------------------------ JS values
\* A dynamically typed field of an input item: t is the typeof/Array.isArray
\* class, s the string value, a the array value.
Undefined == [t |-> "undefined", s |-> <<>>, a |-> <<>>]
Str(s) == [t |-> "string", s |-> s, a |-> <<>>]
Num == [t |-> "number", s |-> <<>>, a |-> <<>>]
Arr(a) == [t |-> "array", s |-> <<>>, a |-> a]

\* JS truthiness: undefined and "" are falsy; a non-zero number, a non-empty
\* string and every array are truthy.
Truthy(v) == \/ v.t \in {"number", "array"}
             \/ v.t = "string" /\ v.s # <<>>

\* ------------------------------------------------------------ normaliser
\* A chat message {role, content}; role is the JS value the code stored.
Message(role, content) == [role |-> role, content |-> content]

SystemMessage(instructions) == Message(Str(<<"system">>), instructions)

\* contentArray.map(c => typeof c['text'] === "string" ? c['text'] : "")
\*             .filter(Boolean)
RECURSIVE fragmentTexts(_)
fragmentTexts(contentArray) ==
  IF contentArray = <<>> THEN <<>>
  ELSE LET c == Head(contentArray)
           t == IF c.text.t = "string" THEN c.text.s ELSE <<>>
       IN (IF t # <<>> THEN <<t>> ELSE <<>>) \o fragmentTexts(Tail(contentArray))

\* Array.prototype.join("\n")
RECURSIVE joinNewline(_)
joinNewline(strs) ==
  IF strs = <<>> THEN <<>>
  ELSE IF Len(strs) = 1 THEN Head(strs)
  ELSE Head(strs) \o <<"\n">> \o joinNewline(Tail(strs))

\* The three-way choice of the inline normaliser.
inlineContent(item) ==
  IF item.content.t = "string" THEN item.content.s
  ELSE IF item.text.t = "string" THEN item.text.s
  ELSE IF item.content.t = "array" THEN joinNewline(fragmentTexts(item.content.a))
  ELSE <<>>

\* typeof item['role'] === "string" ? item['role'] : "user"
inlineRole(item) == IF item.role.t = "string" THEN item.role ELSE Str(<<"user">>)

\* The loop of the inline normaliser: one message per item.
RECURSIVE inlineLoop(_)
inlineLoop(input) ==
  IF input = <<>> THEN <<>>
  ELSE <<Message(inlineRole(Head(input)), inlineContent(Head(input)))>>
       \o inlineLoop(Tail(input))

inlineMessages(instructions, input) ==
  <<SystemMessage(instructions)>> \o inlineLoop(input)

\* The inner loop of formatMessages: textContent += contentItem['text'] for
\* the fragments of type "input_text" whose text is a string.
RECURSIVE textContent(_)
textContent(contentArray) ==
  IF contentArray = <<>> THEN <<>>
  ELSE LET c == Head(contentArray)
       IN (IF c.type = "input_text" /\ c.text.t = "string" THEN c.text.s ELSE <<>>)
          \o textContent(Tail(contentArray))

\* (item['role'] as string) || "user": the cast checks nothing.
formatRole(item) == IF Truthy(item.role) THEN item.role ELSE Str(<<"user">>)

\* The messages formatMessages pushes for one item: one, or none when no
\* branch of the if / else if chain is taken.
formatItem(item) ==
  IF Truthy(item.content) /\ item.content.t = "array"
  THEN <<Message(formatRole(item), textContent(item.content.a))>>
  ELSE IF Truthy(item.text) /\ item.text.t = "string"
  THEN <<Message(formatRole(item), item.text.s)>>
  ELSE IF Truthy(item.content) /\ item.content.t = "string"
  THEN <<Message(formatRole(item), item.content.s)>>
  ELSE <<>>

RECURSIVE formatLoop(_)
formatLoop(input) ==
  IF input = <<>> THEN <<>> ELSE formatItem(Head(input)) \o formatLoop(Tail(input))

formatMessages(instructions, input) ==
  <<SystemMessage(instructions)>> \o formatLoop(input)

\* The message list a variant puts in the request body.
Normalize(v, instructions, input) ==
  IF v = V_FORMAT THEN formatMessages(instructions, input)
  ELSE inlineMessages(instructions, input)

\* ------------------------------------------------------------ inputs
\* Largest number of fragments in a content array.
MaxFrags == 2

Fragment(type, text) == [type |-> type, text |-> text]

Fragments ==
  {Fragment("input_text", Str(<<"f">>)), Fragment("input_text", Str(<<"g">>)),
   Fragment("input_text", Undefined), Fragment("input_image", Undefined),
   Fragment("input_image", Str(<<"i">>))}

SeqsUpTo(S, n) == UNION {[1..k -> S] : k \in 0..n}

ContentValues ==
  {Undefined, Str(<<>>), Str(<<"c">>)} \cup {Arr(a) : a \in SeqsUpTo(Fragments, MaxFrags)}

TextValues == {Undefined, Str(<<>>), Str(<<"t">>)}

RoleValues == {Undefined, Str(<<>>), Str(<<"assistant">>), Num}

Item(role, content, text) == [role |-> role, content |-> content, text |-> text]

\* Every combination of content and text, and every role.
Items ==
  {Item(Undefined, c, t) : c \in ContentValues, t \in TextValues}
  \cup {Item(r, Str(<<"c">>), Undefined) : r \in RoleValues}
  \cup {Item(r, Undefined, Undefined) : r \in RoleValues}

\* The items that precede the last one of an input.
LeadingItems ==
  {Item(Str(<<"assistant">>), Str(<<"c">>), Undefined),
   Item(Undefined, Undefined, Undefined)}

Inputs ==
  {<<>>} \cup
  UNION {{lead \o <<last>> : lead \in [1..k -> LeadingItems], last \in Items} :
           k \in 0..(MaxItems - 1)}

Instructions == {<<>>, <<"s", "<think>", "y", "</think>">>}

\* ------------------------------------------------------------ upstream JSON
\* A parsed JSON document of the upstream: null, or an object with an optional
\* id and choices. shape tells what data.choices holds:
\*   "nochoices"    no choices field
\*   "emptychoices" choices: []
\*   "nullchoice"   choices: [null]
\*   "delta"        choices: [{delta: {content}}]
\*   "message"      choices: [{message: {content, role}}]
Doc(id, shape, content, role) ==
  [kind |-> "object", id |-> id, shape |-> shape, content |-> content, role |-> role]

JsonNull ==
  [kind |-> "null", id |-> Undefined, shape |-> "nochoices",
   content |-> Undefined, role |-> Undefined]

DocContents ==
  {Undefined, Str(<<>>), Str(<<"a">>), Str(<<" ">>),
   Str(<<"<think>", "x", "</think>">>),
   Str(<<"<think>", "x">>),
   Str(<<"</think>", "b">>)}

Docs ==
  {Doc(id, sh, c, Undefined) :
     id \in {Undefined, Str(<<"r1">>)}, sh \in {"delta", "message"}, c \in DocContents}
  \cup {Doc(Str(<<"r2">>), sh, c, Undefined) :
          sh \in {"delta", "message"}, c \in {Str(<<>>), Str(<<"a">>)}}
  \cup {Doc(Undefined, "message", Str(<<"a">>), Str(<<"tool">>))}
  \cup {Doc(id, sh, Undefined, Undefined) :
          id \in {Undefined, Str(<<"r1">>)},
          sh \in {"nochoices", "emptychoices", "nullchoice"}}
  \cup {JsonNull}

\* ------------------------------------------------------------ body text
\* The text of a streamed body is a sequence of atoms:
\*   nl    the newline            data  the prefix "data: "
\*   done  the text "[DONE]"      ws    white space other than the newline
\*   bad   text that is no JSON   other text of a line that is no data line
\*   json  the text of a whole JSON document
\*   head, tail  the two halves of the text of a JSON document
Atom(k, doc) == [k |-> k, doc |-> doc]
ANl == Atom("nl", JsonNull)
AData == Atom("data", JsonNull)
ADone == Atom("done", JsonNull)
AWs == Atom("ws", JsonNull)
ABad == Atom("bad", JsonNull)
AOther == Atom("other", JsonNull)
AJson(d) == Atom("json", d)
AHead(d) == Atom("head", d)
ATail(d) == Atom("tail", d)

\* line.trim() on atoms.
RECURSIVE trimAtomsStart(_)
trimAtomsStart(l) ==
  IF l = <<>> THEN <<>>
  ELSE IF Head(l).k = "ws" THEN trimAtomsStart(Tail(l)) ELSE l

RECURSIVE trimAtomsEnd(_)
trimAtomsEnd(l) ==
  IF l = <<>> THEN <<>>
  ELSE IF l[Len(l)].k = "ws" THEN trimAtomsEnd(SubSeq(l, 1, Len(l) - 1)) ELSE l

trimAtoms(l) == trimAtomsEnd(trimAtomsStart(l))

\* buffer.split("\n"): the pieces between the newlines, the last one included.
RECURSIVE split(_)
split(text) ==
  IF \A i \in 1..Len(text) : text[i].k # "nl" THEN <<text>>
  ELSE LET i == CHOOSE k \in 1..Len(text) :
                  /\ text[k].k = "nl"
                  /\ \A m \in 1..(k - 1) : text[m].k # "nl"
       IN <<SubSeq(text, 1, i - 1)>> \o split(SubSeq(text, i + 1, Len(text)))

\* line.startsWith("data: ")
startsWithData(line) == line # <<>> /\ Head(line).k = "data"

\* JSON.parse(line.slice(6)): white space around the document is allowed; the
\* text parses when it is one whole document, or the two halves of one.
Parses(payload) ==
  LET t == trimAtoms(payload)
  IN \/ Len(t) = 1 /\ t[1].k = "json"
     \/ Len(t) = 2 /\ t[1].k = "head" /\ t[2].k = "tail" /\ t[1].doc = t[2].doc

Parsed(payload) == trimAtoms(payload)[1].doc

\* ------------------------------------------------------------ events
Digits == <<"0", "1", "2", "3", "4", "5", "6", "7">>

\* `venice-${Date.now()}` and `venice-error-${Date.now()}`
FallbackId(t) == <<"venice-", Digits[t + 1]>>
ErrorId(t) == <<"venice-error-", Digits[t + 1]>>

\* A VeniceStreamResponse. content and role are JS values (Undefined when the
\* object literal has no such field); output is response.output[0].text.
Event(id, type, content, role, respId, status, output) ==
  [id |-> id, type |-> type, content |-> content, role |-> role,
   respId |-> respId, status |-> status, output |-> output]

\* The value of x || "assistant".
OrAssistant(x) == IF Truthy(x) THEN x ELSE Str(<<"assistant">>)

\* `Error: ${error}`
ErrorText(error) == <<"Error: ">> \o error

\* new Error(`Venice API error: ${response.status} - ${error}`), as a string
StatusError(status, body) == <<"Error: ", "Venice API error: ", status, " - ">> \o body
NetworkError == <<"TypeError: ", "fetch failed">>
SyntaxError == <<"SyntaxError: ", "Unexpected token">>
NullError == <<"TypeError: ", "Cannot read properties of null">>
NoError == <<>>

\* ------------------------------------------------------------ stream decoder
\* What visiting one line does to the decoder: the events it yields, the new
\* running id and first-chunk flag, and the error that leaves the inner try
\* (NoError when none does).
LineResult(emit, id, first, error) ==
  [emit |-> emit, responseId |-> id, isFirstChunk |-> first, error |-> error]

Keep(id, first) == LineResult(<<>>, id, first, NoError)

\* The inner catch block that throws the error on.
rethrowParseError(error, id, first) == LineResult(<<>>, id, first, error)

\* catch (error: unknown) { console.error(...) } around JSON.parse and the
\* handling of the parsed chunk: the error goes no further.
catchParseError(error, id, first) == Keep(id, first)

\* ProgressEvent with the status of a finished response.
ProgressEventCompleted(id, content, role) ==
  Event(id, "response.output_item.done", Str(content), role, id, "completed", content)

\* The event of a content chunk.
ProgressEvent(id, content, role) ==
  Event(id, "response.output_item.done", Str(content), role, id, "in_progress", content)

\* if (isFirstChunk || content.trim() !== "") { isFirstChunk = false;
\*   if (data.id) responseId = data.id;  yield {...} }
emitChunk(data, content, role, id, first) ==
  IF first \/ trim(content) # <<>>
  THEN LET newId == IF Truthy(data.id) THEN data.id.s ELSE id
       IN LineResult(<<ProgressEvent(newId, content, role)>>, newId, FALSE, NoError)
  ELSE Keep(id, first)

\* The same in part_000, where responseId is a const and the event has no role.
emitChunkConstId(data, content, id, first) ==
  IF first \/ trim(content) # <<>>
  THEN LineResult(<<ProgressEvent(id, content, Undefined)>>, id, FALSE, NoError)
  ELSE Keep(id, first)

\* The body of the inner try of the formatMessages variant, after JSON.parse.
formatChunk(data, id, first) ==
  IF data.kind = "null" THEN catchParseError(NullError, id, first)
  ELSE IF data.shape \in {"nochoices", "emptychoices"} THEN Keep(id, first)
  ELSE IF data.shape = "nullchoice" THEN catchParseError(NullError, id, first)
  ELSE IF data.shape = "delta" /\ Truthy(data.content)
  THEN emitChunk(data, filterThinkTags(data.content.s), Str(<<"assistant">>), id, first)
  ELSE IF data.shape = "message" /\ Truthy(data.content)
  THEN emitChunk(data, filterThinkTags(data.content.s), OrAssistant(data.role), id, first)
  ELSE Keep(id, first)

\* message.content || ""
contentOrEmpty(data) == IF Truthy(data.content) THEN data.content.s ELSE <<>>

\* The body of the inner try of the inline variant, after JSON.parse.
inlineChunk(data, id, first) ==
  IF data.kind = "null" THEN catchParseError(NullError, id, first)
  ELSE IF data.shape \in {"nochoices", "emptychoices"} THEN Keep(id, first)
  ELSE IF data.shape = "nullchoice" THEN catchParseError(NullError, id, first)
  ELSE IF data.shape = "message"
  THEN emitChunk(data, filterThinkTags(contentOrEmpty(data)), OrAssistant(data.role),
                 id, first)
  ELSE Keep(id, first)

\* The body of the inner try of part_000, after JSON.parse.
partChunk(data, id, first) ==
  IF data.kind = "null" THEN catchParseError(NullError, id, first)
  ELSE IF data.shape \in {"nochoices", "emptychoices"} THEN Keep(id, first)
  ELSE IF data.shape = "nullchoice" THEN catchParseError(NullError, id, first)
  ELSE IF data.shape = "message"
  THEN emitChunkConstId(data, filterThinkTags(contentOrEmpty(data)), id, first)
  ELSE Keep(id, first)

chunkResult(v, data, id, first) ==
  IF v = V_FORMAT THEN formatChunk(data, id, first)
  ELSE IF v = V_INLINE THEN inlineChunk(data, id, first)
  ELSE partChunk(data, id, first)

\* line.trim() === "" || line.trim() === "data: [DONE]"
skipped(line) == trimAtoms(line) = <<>> \/ trimAtoms(line) = <<AData, ADone>>

\* One iteration of for (const line of lines).
lineResult(v, line, id, first) ==
  IF skipped(line) THEN Keep(id, first)
  ELSE IF startsWithData(line)
  THEN IF Parses(Tail(line))
       THEN chunkResult(v, Parsed(Tail(line)), id, first)
       ELSE catchParseError(SyntaxError, id, first)
  ELSE Keep(id, first)

\* completedEvent with the label also in response.output[0].text.
completedEventLabelled(v, id) ==
  Event(id, "response.completed", Str(<<"Response complete">>), Str(<<"assistant">>),
        id, "completed", <<"Response complete">>)

\* The event yielded when reader.read() reports done.
completedEvent(v, id) ==
  IF v = V_PART
  THEN Event(id, "response.completed", Undefined, Undefined, id, "completed", <<>>)
  ELSE Event(id, "response.completed", Str(<<"Response complete">>),
             Str(<<"assistant">>), id, "completed", <<>>)

\* The event of the outer catch block; t1 and t2 are the two values of
\* Date.now() in the object literal.
errorEvent(error, t1, t2) ==
  Event(ErrorId(t1), "response.completed", Str(ErrorText(error)), Str(<<"assistant">>),
        ErrorId(t2), "error", ErrorText(error))

\* ------------------------------------------------------------ non-streaming
\* data.id || `venice-${Date.now()}`
idOrFallback(data, t) == IF Truthy(data.id) THEN data.id.s ELSE FallbackId(t)

\* Whether reading data.choices[0].message throws a TypeError.
jsonThrows(data) == data.kind = "null" \/ data.shape = "nullchoice"

\* The event of the else branch of the variants of client.ts.
jsonEvent(data, t1, t2) ==
  IF data.shape = "message"
  THEN LET content == filterThinkTags(contentOrEmpty(data))
       IN Event(idOrFallback(data, t1), "response.completed", Str(content),
                OrAssistant(data.role), idOrFallback(data, t2), "completed", content)
  ELSE Event(idOrFallback(data, t1), "response.completed",
             Str(<<"No content in response">>), Str(<<"assistant">>),
             idOrFallback(data, t2), "completed", <<"No content in response">>)

\* The event of the else branch of part_000.
partJsonEvent(data, t) ==
  LET content == IF data.shape = "message"
                 THEN filterThinkTags(contentOrEmpty(data)) ELSE <<>>
  IN Event(idOrFallback(data, t), "response.completed", Str(content), Undefined,
           idOrFallback(data, t), "completed", content)

\* ------------------------------------------------------------ transport
\* The documents whose text the transport may cut in two.
SplitDocs ==
  {Doc(Str(<<"r1">>), "delta", Str(<<"a">>), Undefined),
   Doc(Str(<<"r2">>), "message", Str(<<"a">>), Undefined)}

\* The lines of a body.
WholeLines ==
  {<<AData, AJson(d)>> : d \in Docs}
  \cup {<<AWs, AData, AJson(d)>> : d \in SplitDocs}
  \cup {<<AData, AJson(d), AWs>> : d \in SplitDocs}
  \cup {<<AWs>>, <<AData, ADone>>, <<AWs, AData, ADone, AWs>>, <<AData, ABad>>,
        <<AData>>, <<AOther>>}

\* The chunks reader.read() may deliver: a terminated line, nothing, a bare
\* newline, the pieces of a line cut in two, a line without its newline, and
\* two lines at once.
Chunks ==
  {l \o <<ANl>> : l \in WholeLines}
  \cup {<<>>, <<ANl>>, <<AData>>, <<AData, ADone, ANl, ANl>>}
  \cup {<<AData, AHead(d)>> : d \in SplitDocs}
  \cup {<<ATail(d), ANl>> : d \in SplitDocs}
  \cup {<<AJson(d), ANl>> : d \in SplitDocs}
  \cup {<<AData, AJson(d)>> : d \in SplitDocs}
  \cup {<<AData, AJson(d1), ANl, AData, AJson(d2), ANl>> : d1 \in SplitDocs, d2 \in SplitDocs}

Statuses == {"404", "500"}
Bodies == {<<>>, <<"oops">>}

\* ------------------------------------------------------------ state machine
NoParams == [instructions |-> <<>>, input |-> <<>>, stream |-> FALSE]
NoRequest == [messages |-> <<>>, stream |-> FALSE]
NoId == <<>>

\* A fetch Response: ok and status, the body as text (read when !ok), whether
\* body is set, and the body as JSON (valid: whether it parses).
Response(ok, status, text, hasBody, valid, data) ==
  [ok |-> ok, status |-> status, text |-> text, hasBody |-> hasBody,
   valid |-> valid, data |-> data]

NoResponse == Response(FALSE, "", <<>>, FALSE, FALSE, JsonNull)

\* The class of a line, as the for loop tells them apart.
kindOf(line) ==
  IF skipped(line) THEN "skipped"
  ELSE IF ~startsWithData(line) THEN "other"
  ELSE IF Parses(Tail(line)) THEN "parsed"
  ELSE "malformed"

\* filterThinkTags has not been called.
NotFiltered == <<"not filtered">>

\* No second invocation.
NoFrame == [pc |-> "none"]

\* A client on which responses has not been called.
Constructed ==
  /\ variant \in Variants
  /\ pc = "start"
  /\ params = NoParams
  /\ request = NoRequest
  /\ response = NoResponse
  /\ now = 0
  /\ buffer = <<>>
  /\ lines = <<>>
  /\ lineKind = "none"
  /\ responseId = NoId
  /\ isFirstChunk = FALSE
  /\ nReads = 0
  /\ events = <<>>
  /\ raised = NoError

Init ==
  /\ Constructed
  /\ raw = <<>>
  /\ filtered = NotFiltered
  /\ wire = <<>>
  /\ wirePos = 0
  /\ other = NoFrame

\* throw swallowed: the generator returns, nothing yielded and nothing raised.
ThrowSwallowed(error) ==
  /\ pc' = "done"
  /\ UNCHANGED <<events, now, raised>>

\* throw inside responses: the variants of client.ts catch it and yield the
\* error event, after which the generator returns; part_000 lets it out.
Throw(error) ==
  IF HasCatch(variant)
  THEN \E t1 \in now..MaxClock : \E t2 \in t1..MaxClock :
         /\ events' = Append(events, errorEvent(error, t1, t2))
         /\ now' = t2
         /\ pc' = "done"
         /\ raised' = raised
  ELSE /\ raised' = error
       /\ pc' = "raised"
       /\ UNCHANGED <<events, now>>

\* The request is over: its body and the input it was made from are read no
\* more (params.stream has been read into the branch taken).
Sent ==
  /\ params' = [NoParams EXCEPT !.stream = params.stream]
  /\ request' = NoRequest

\* responses(params) up to the await of fetch: the messages are normalised
\* and the request is issued.
Call ==
  /\ pc = "start"
  /\ \E instructions \in Instructions, input \in Inputs, st \in BOOLEAN :
       /\ params' = [instructions |-> instructions, input |-> input, stream |-> st]
       /\ request' = [messages |-> Normalize(variant, instructions, input),
                      stream |-> st]
  /\ pc' = "fetch"
  /\ UNCHANGED <<variant, response, now, buffer, lines, lineKind, responseId,
                 isFirstChunk, nReads, events, raised>>
  /\ UNCHANGED apart

\* fetch rejects.
FetchThrows ==
  /\ pc = "fetch"
  /\ Throw(NetworkError)
  /\ Sent
  /\ UNCHANGED <<variant, response, buffer, lines, lineKind, responseId, isFirstChunk,
                 nReads>>
  /\ UNCHANGED apart

\* fetch resolves with !response.ok: the body is read as text and thrown.
FetchNotOk ==
  /\ pc = "fetch"
  /\ \E status \in Statuses, body \in Bodies :
       /\ response' = Response(FALSE, status, body, FALSE, FALSE, JsonNull)
       /\ Throw(StatusError(status, body))
  /\ Sent
  /\ UNCHANGED <<variant, buffer, lines, lineKind, responseId, isFirstChunk, nReads>>
  /\ UNCHANGED apart

\* fetch resolves with response.ok and a body stream, and params.stream is
\* set: the streaming branch creates the decoder's locals.
FetchOkStream ==
  /\ pc = "fetch"
  /\ params.stream
  /\ response' = Response(TRUE, "200", <<>>, TRUE, FALSE, JsonNull)
  /\ \E t \in now..MaxClock :
       /\ responseId' = FallbackId(t)
       /\ now' = t
  /\ isFirstChunk' = TRUE
  /\ buffer' = <<>>
  /\ pc' = "read"
  /\ Sent
  /\ UNCHANGED <<variant, lines, lineKind, nReads, events, raised>>
  /\ UNCHANGED apart

\* fetch resolves with response.ok, and params.stream is not set or
\* response.body is null: the else branch awaits response.json().
FetchOkJson ==
  /\ pc = "fetch"
  /\ \E hasBody \in BOOLEAN, valid \in BOOLEAN, data \in Docs :
       /\ ~(params.stream /\ hasBody)
       /\ ~valid => data = JsonNull
       /\ response' = Response(TRUE, "200", <<>>, hasBody, valid, data)
  /\ pc' = "json"
  /\ Sent
  /\ UNCHANGED <<variant, now, buffer, lines, lineKind, responseId, isFirstChunk,
                 nReads, events, raised>>
  /\ UNCHANGED apart

\* The chunk split on its own, the text held back forgotten.
chunkLines(held, chunk) == split(chunk)

\* buffer += decoder.decode(value, { stream: true }); buffer.split("\n"):
\* the text held back goes in front of the chunk.
bufferedLines(held, chunk) == split(held \o chunk)

\* reader.read() delivers a chunk: it is appended to the buffer, the buffer is
\* split at the newlines and its last piece is kept.
ReadChunk ==
  /\ pc = "read"
  /\ nReads < MaxReads
  /\ \E chunk \in Chunks :
       LET pieces == bufferedLines(buffer, chunk)
       IN /\ lines' = SubSeq(pieces, 1, Len(pieces) - 1)
          /\ buffer' = pieces[Len(pieces)]
          /\ pc' = IF Len(pieces) > 1 THEN "line" ELSE "read"
  /\ nReads' = nReads + 1
  /\ UNCHANGED <<variant, params, request, response, now, lineKind, responseId,
                 isFirstChunk, events, raised>>
  /\ UNCHANGED apart

\* ProcessLine with a "data: [DONE]" line that ends the decoding: the terminal
\* event is yielded at once and the rest of the body is not read.
ProcessLineDoneEnds ==
  /\ pc = "line"
  /\ IF trimAtoms(Head(lines)) = <<AData, ADone>>
     THEN /\ events' = Append(events, completedEvent(variant, responseId))
          /\ pc' = "done"
          /\ UNCHANGED <<responseId, isFirstChunk, now, raised>>
     ELSE LET r == lineResult(variant, Head(lines), responseId, isFirstChunk)
          IN /\ events' = events \o r.emit
             /\ responseId' = r.responseId
             /\ isFirstChunk' = r.isFirstChunk
             /\ pc' = IF Len(lines) > 1 THEN "line" ELSE "read"
             /\ UNCHANGED <<now, raised>>
  /\ lineKind' = kindOf(Head(lines))
  /\ lines' = Tail(lines)
  /\ UNCHANGED <<variant, params, request, response, buffer, nReads>>
  /\ UNCHANGED apart

\* One iteration of the for loop over the lines of the chunk.
ProcessLine ==
  /\ pc = "line"
  /\ LET r == lineResult(variant, Head(lines), responseId, isFirstChunk)
     IN IF r.error # NoError
        THEN /\ Throw(r.error)
             /\ UNCHANGED <<responseId, isFirstChunk>>
        ELSE /\ events' = events \o r.emit
             /\ responseId' = r.responseId
             /\ isFirstChunk' = r.isFirstChunk
             /\ pc' = IF Len(lines) > 1 THEN "line" ELSE "read"
             /\ UNCHANGED <<now, raised>>
  /\ lineKind' = kindOf(Head(lines))
  /\ lines' = Tail(lines)
  /\ UNCHANGED <<variant, params, request, response, buffer, nReads>>
  /\ UNCHANGED apart

\* ReadDone without the break that leaves the while loop.
ReadDoneNoBreak ==
  /\ pc = "read"
  /\ events' = Append(events, completedEvent(variant, responseId))
  /\ pc' = "read"
  /\ UNCHANGED <<variant, params, request, response, now, buffer, lines, lineKind,
                 responseId, isFirstChunk, nReads, raised>>
  /\ UNCHANGED apart

\* reader.read() reports done: the terminal event is yielded and the loop left.
ReadDone ==
  /\ pc = "read"
  /\ events' = Append(events, completedEvent(variant, responseId))
  /\ pc' = "done"
  /\ UNCHANGED <<variant, params, request, response, now, buffer, lines, lineKind,
                 responseId, isFirstChunk, nReads, raised>>
  /\ UNCHANGED apart

\* reader.read() rejects (the connection breaks in the middle of the body).
ReadThrows ==
  /\ pc = "read"
  /\ Throw(NetworkError)
  /\ UNCHANGED <<variant, params, request, response, buffer, lines, lineKind,
                 responseId, isFirstChunk, nReads>>
  /\ UNCHANGED apart

\* response.json() resolves: the single event of the non-streaming branch.
\* part_000 evaluates the id once, into a const responseId.
Json ==
  /\ pc = "json"
  /\ response.valid
  /\ LET data == response.data
     IN IF jsonThrows(data)
        THEN /\ Throw(NullError)
             /\ UNCHANGED responseId
        ELSE /\ \E t1 \in now..MaxClock : \E t2 \in t1..MaxClock :
                  /\ Truthy(data.id) => t1 = now /\ t2 = now
                  /\ variant = V_PART => t2 = t1
                  /\ events' = Append(events,
                                      IF variant = V_PART THEN partJsonEvent(data, t1)
                                      ELSE jsonEvent(data, t1, t2))
                  /\ responseId' = IF variant = V_PART THEN idOrFallback(data, t1)
                                   ELSE responseId
                  /\ now' = t2
             /\ pc' = "done"
             /\ raised' = raised
  /\ UNCHANGED <<variant, params, request, response, buffer, lines, lineKind,
                 isFirstChunk, nReads>>
  /\ UNCHANGED apart

\* response.json() rejects: the body is no JSON.
JsonThrows ==
  /\ pc = "json"
  /\ ~response.valid
  /\ Throw(SyntaxError)
  /\ UNCHANGED <<variant, params, request, response, buffer, lines, lineKind,
                 responseId, isFirstChunk, nReads>>
  /\ UNCHANGED apart

Next ==
  \/ Call
  \/ FetchThrows
  \/ FetchNotOk
  \/ FetchOkStream
  \/ FetchOkJson
  \/ ReadChunk
  \/ ProcessLine
  \/ ReadDone
  \/ ReadThrows
  \/ Json
  \/ JsonThrows

Spec == Init /\ [][Next]_vars

\* ------------------------------------------------------------ filterThinkTags alone
\* Longest text of the enumeration.
MaxText == 4

FilterTokens == {"a", "\n", "<think>", "</think>"}

\* Texts longer than the enumeration reaches.
FilterExamples ==
  {<<"a", "<think>", "x", "</think>", "b">>,
   <<"a", "<think>", "x", "\n", "y", "</think>", "b", "<think>", "z", "</think>", "c">>,
   <<"a", "<think>", "unterminated">>}

FilterTexts == SeqsUpTo(FilterTokens, MaxText) \cup FilterExamples

InitFilter ==
  /\ Constructed
  /\ raw \in FilterTexts
  /\ filtered = NotFiltered
  /\ wire = <<>>
  /\ wirePos = 0
  /\ other = NoFrame

\* this.filterThinkTags(raw)
Filter ==
  /\ filtered = NotFiltered
  /\ filtered' = filterThinkTags(raw)
  /\ UNCHANGED <<variant, pc, params, request, response, now, buffer, lines, lineKind,
                 responseId, isFirstChunk, nReads, events, raised, raw, wire, wirePos,
                 other>>

NextFilter == Filter

SpecFilter == InitFilter /\ [][NextFilter]_vars

\* ------------------------------------------------------------ one body, cut up
\* Largest number of terminated lines of a body.
MaxBodyLines == 2

BodyDocs == SplitDocs \cup {Doc(Undefined, "message", Str(<<" ">>), Undefined)}

BodyLines ==
  {<<>>, <<AWs>>, <<AData, ADone>>, <<AData, ABad>>, <<AOther>>}
  \cup {<<AData, AHead(d), ATail(d)>> : d \in BodyDocs}

\* What may follow the last newline of a body.
BodyTails == {<<>>, <<AData, AJson(Doc(Str(<<"r1">>), "message", Str(<<"a">>), Undefined))>>}

RECURSIVE Terminated(_)
Terminated(ls) ==
  IF ls = <<>> THEN <<>> ELSE Head(ls) \o <<ANl>> \o Terminated(Tail(ls))

WireBodies ==
  {Terminated(ls) \o t : ls \in SeqsUpTo(BodyLines, MaxBodyLines), t \in BodyTails}

\* responses has entered the streaming branch at time 0; the body it is
\* about to read is w.
Decoding(w) ==
  /\ variant \in Variants
  /\ pc = "read"
  /\ params = [NoParams EXCEPT !.stream = TRUE]
  /\ request = NoRequest
  /\ response = Response(TRUE, "200", <<>>, TRUE, FALSE, JsonNull)
  /\ now = 0
  /\ buffer = <<>>
  /\ lines = <<>>
  /\ lineKind = "none"
  /\ responseId = FallbackId(0)
  /\ isFirstChunk = TRUE
  /\ nReads = 0
  /\ events = <<>>
  /\ raised = NoError
  /\ raw = <<>>
  /\ filtered = NotFiltered
  /\ wire = w
  /\ wirePos = 0

InitSplit ==
  /\ \E w \in WireBodies : Decoding(w)
  /\ other = NoFrame

\* reader.read() delivers the next piece of the body, of whatever length the
\* transport likes, none included.
ReadPiece ==
  /\ pc = "read"
  /\ \E n \in 0..(Len(wire) - wirePos) :
       LET chunk == SubSeq(wire, wirePos + 1, wirePos + n)
           pieces == bufferedLines(buffer, chunk)
       IN /\ lines' = SubSeq(pieces, 1, Len(pieces) - 1)
          /\ buffer' = pieces[Len(pieces)]
          /\ pc' = IF Len(pieces) > 1 THEN "line" ELSE "read"
          /\ wirePos' = wirePos + n
  /\ UNCHANGED <<variant, params, request, response, now, lineKind, responseId,
                 isFirstChunk, nReads, events, raised, raw, filtered, wire, other>>

\* ReadEnd that first visits the text left in the buffer as one more line.
ReadEndFlush ==
  /\ wirePos = Len(wire)
  /\ pc = "read"
  /\ LET r == lineResult(variant, buffer, responseId, isFirstChunk)
     IN /\ events' = Append(events \o r.emit, completedEvent(variant, r.responseId))
        /\ responseId' = r.responseId
        /\ isFirstChunk' = r.isFirstChunk
  /\ pc' = "done"
  /\ UNCHANGED <<variant, params, request, response, now, buffer, lines, lineKind,
                 nReads, raised>>
  /\ UNCHANGED apart

\* reader.read() reports done once the whole body has been delivered.
ReadEnd ==
  /\ wirePos = Len(wire)
  /\ ReadDone

NextSplit ==
  \/ ReadPiece
  \/ ProcessLine
  \/ ReadEnd

SpecSplit == InitSplit /\ [][NextSplit]_vars

\* ------------------------------------------------------------ two invocations
\* The bodies of two invocations of responses on one client.
TwoBodies ==
  {<<AData, AHead(Doc(Str(<<"r2">>), "message", Str(<<"a">>), Undefined)),
     ATail(Doc(Str(<<"r2">>), "message", Str(<<"a">>), Undefined)), ANl>>,
   <<AData, ADone, ANl,
     AData, AJson(Doc(Str(<<"r1">>), "message", Str(<<"<think>", "x", "</think>">>),
                      Undefined)), ANl>>,
   <<AData, ABad, ANl, AData, AJson(Doc(Undefined, "message", Str(<<"a">>), Undefined))>>}

\* The locals of an invocation of responses in the streaming branch, with
\* the body it reads and the events its consumer has got.
Frame ==
  [pc |-> pc, wire |-> wire, wirePos |-> wirePos, buffer |-> buffer, lines |-> lines,
   lineKind |-> lineKind, responseId |-> responseId, isFirstChunk |-> isFirstChunk,
   events |-> events]

\* Resume with buffer a field of the client, shared by its invocations.
ResumeSharedBuffer(f) ==
  /\ pc' = f.pc
  /\ wire' = f.wire
  /\ wirePos' = f.wirePos
  /\ buffer' = buffer
  /\ lines' = f.lines
  /\ lineKind' = f.lineKind
  /\ responseId' = f.responseId
  /\ isFirstChunk' = f.isFirstChunk
  /\ events' = f.events

\* A suspended generator goes on: const reader, const decoder, let buffer,
\* let responseId and let isFirstChunk are locals of the call, so it finds
\* them as it left them.
Resume(f) ==
  /\ pc' = f.pc
  /\ wire' = f.wire
  /\ wirePos' = f.wirePos
  /\ buffer' = f.buffer
  /\ lines' = f.lines
  /\ lineKind' = f.lineKind
  /\ responseId' = f.responseId
  /\ isFirstChunk' = f.isFirstChunk
  /\ events' = f.events

InitTwo ==
  /\ \E w \in TwoBodies : Decoding(w)
  /\ \E w \in TwoBodies :
       other = [pc |-> "read", wire |-> w, wirePos |-> 0, buffer |-> <<>>,
                lines |-> <<>>, lineKind |-> "none", responseId |-> FallbackId(0),
                isFirstChunk |-> TRUE, events |-> <<>>]

\* The running invocation is suspended (at await reader.read(), at a yield,
\* or at its end) and the other one goes on. Between two lines that yield
\* nothing the program cannot switch; the model lets it switch there too.
Switch ==
  /\ other' = Frame
  /\ Resume(other)
  /\ UNCHANGED <<variant, params, request, response, now, nReads, raised, raw, filtered>>

NextTwo ==
  \/ ReadPiece
  \/ ProcessLine
  \/ ReadEnd
  \/ Switch

SpecTwo == InitTwo /\ [][NextTwo]_vars

\* ------------------------------------------------------------ claims
Completed(e) == e.type = "response.completed"
Finished == pc \in {"done", "raised"}
Streaming == params.stream /\ response.ok /\ response.hasBody
Last(seq) == seq[Len(seq)]

\* C1 (as stated): every finished run that produced an event, successful or
\* failed, produced exactly one "response.completed" event, and it is the
\* last one; no event follows a "response.completed" event.
C1_EveryRunEndsCompleted ==
  /\ \A i \in 1..(Len(events) - 1) : ~Completed(events[i])
  /\ (Finished /\ events # <<>>) => Completed(Last(events))

\* C1 (amended): no event follows a "response.completed" event; a run that
\* ends without raising has produced exactly one such event, as its last
\* event. A failure of the HTTP exchange ends a run of client.ts that way,
\* with the error event; in part_000 it raises, and a run that raised has
\* produced no such event.
C1_ReturnedRunEndsCompleted ==
  /\ \A i \in 1..(Len(events) - 1) : ~Completed(events[i])
  /\ pc = "done" => (events # <<>> /\ Completed(Last(events)))
  /\ pc = "raised" => (variant = V_PART /\ \A i \in 1..Len(events) : ~Completed(events[i]))

\* A failed run that had yielded content events ends with its terminal event.
C1_Witness ==
  /\ pc = "done"
  /\ Len(events) >= 2
  /\ Last(events).status = "error"
  /\ events[1].status = "in_progress"

\* C2 (as stated): when the reader reports done, exactly one event is
\* yielded, of type "response.completed" and status "completed", carrying the
\* running id and no text other than the empty text, and the run ends.
C2_DoneYieldsEmptyCompleted ==
  [][ReadDone =>
       /\ Len(events') = Len(events) + 1
       /\ SubSeq(events', 1, Len(events)) = events
       /\ Last(events').type = "response.completed"
       /\ Last(events').status = "completed"
       /\ Last(events').output = <<>>
       /\ Last(events').content \in {Undefined, Str(<<>>)}
       /\ Last(events').id = responseId
       /\ Last(events').respId = responseId
       /\ pc' = "done"]_vars

\* C2 (amended): when the reader reports done, exactly one event is yielded,
\* of type "response.completed" and status "completed", carrying the running
\* id, with an empty response.output[0].text; its content is absent in
\* part_000 and is the fixed label "Response complete" in client.ts; the run
\* ends. This holds whatever events came before, none included.
C2_DoneYieldsCompleted ==
  [][ReadDone =>
       /\ Len(events') = Len(events) + 1
       /\ SubSeq(events', 1, Len(events)) = events
       /\ Last(events').type = "response.completed"
       /\ Last(events').status = "completed"
       /\ Last(events').output = <<>>
       /\ Last(events').content =
            (IF variant = V_PART THEN Undefined ELSE Str(<<"Response complete">>))
       /\ Last(events').id = responseId
       /\ Last(events').respId = responseId
       /\ pc' = "done"]_vars

\* A stream that ended normally after chunks that yielded no content event.
C2_Witness ==
  /\ pc = "done"
  /\ Streaming
  /\ nReads >= 1
  /\ Len(events) = 1
  /\ events[1].status = "completed"

\* C3 (as stated): a non-success status raises an error carrying the status
\* code and the body text, and no event is produced.
C3_NotOkRaises ==
  (Finished /\ response.status \in Statuses) =>
    /\ events = <<>>
    /\ pc = "raised"
    /\ raised = StatusError(response.status, response.text)

\* The line the for loop visits next, and the document it parses to.
Line == Head(lines)
Data == Parsed(Tail(Line))
VisitsParsed == pc = "line" /\ kindOf(Line) = "parsed"

\* The filtered text of a chunk's first choice, empty when it has none.
ChunkText(d) == IF d.content.t = "string" THEN filterThinkTags(d.content.s) ELSE <<>>

\* The step yields exactly one event, an in-progress one with this text.
YieldsProgress(text) ==
  /\ Len(events') = Len(events) + 1
  /\ SubSeq(events', 1, Len(events)) = events
  /\ Last(events').type = "response.output_item.done"
  /\ Last(events').status = "in_progress"
  /\ Last(events').content = Str(text)
  /\ Last(events').output = text

\* C4 (as stated): once the loop has visited a parsed chunk that carries an
\* id, that id is the running response id, whether or not the chunk yielded
\* an event.
C4_ChunkIdAdopted ==
  [][(VisitsParsed /\ Data.kind = "object" /\ Truthy(Data.id)) =>
       responseId' = Data.id.s]_vars

\* C5: visiting a "data: " line whose remainder is no JSON yields no event,
\* raises nothing, leaves the running id, the first-chunk flag and the buffer
\* as they were, and the loop goes on.
C5_MalformedLineIgnored ==
  [][(pc = "line" /\ kindOf(Line) = "malformed") =>
       /\ events' = events
       /\ raised' = raised
       /\ responseId' = responseId
       /\ isFirstChunk' = isFirstChunk
       /\ buffer' = buffer
       /\ pc' \in {"line", "read"}]_vars

\* A malformed line was visited after a content event, and the stream goes on.
C5_Witness ==
  /\ lineKind = "malformed"
  /\ pc = "read"
  /\ raised = NoError
  /\ events # <<>>
  /\ Last(events).status = "in_progress"

\* C6 (as stated): a parsed chunk whose first choice carries text, as
\* delta.content or as message.content, that is not blank after filtering
\* yields exactly one in-progress event with the filtered text.
C6_TextChunkYieldsEvent ==
  [][(/\ VisitsParsed
      /\ Data.kind = "object"
      /\ Data.shape \in {"delta", "message"}
      /\ trim(ChunkText(Data)) # <<>>) =>
       YieldsProgress(ChunkText(Data))]_vars

\* C7 (as stated): a parsed chunk with a first choice yields an in-progress
\* event exactly when the first-chunk flag is set or its filtered text is not
\* blank, and yielding clears the flag.
C7_EmitIffFirstOrText ==
  [][(VisitsParsed /\ Data.kind = "object" /\ Data.shape \in {"delta", "message"}) =>
       /\ (isFirstChunk \/ trim(ChunkText(Data)) # <<>>) <=> YieldsProgress(ChunkText(Data))
       /\ ~(isFirstChunk \/ trim(ChunkText(Data)) # <<>>) => events' = events
       /\ events' # events => ~isFirstChunk']_vars

\* C8 (as stated): a non-streaming run with a success status whose body is a
\* JSON object yields exactly one event, "response.completed" with status
\* "completed"; content[0].text and response.output[0].text are the filtered
\* content of the first choice's message, empty when there is none; the id
\* is the upstream id, or a fallback id when there is none.
C8_JsonOneCompleted ==
  (/\ pc = "done"
   /\ response.ok
   /\ ~Streaming
   /\ response.valid
   /\ ~jsonThrows(response.data)) =>
    LET d == response.data
        text == IF d.shape = "message" THEN ChunkText(d) ELSE <<>>
    IN /\ Len(events) = 1
       /\ events[1].type = "response.completed"
       /\ events[1].status = "completed"
       /\ events[1].content = Str(text)
       /\ events[1].output = text
       /\ events[1].id = (IF Truthy(d.id) THEN d.id.s ELSE events[1].id)
       /\ Truthy(d.id) \/ \E t \in 0..MaxClock : events[1].id = FallbackId(t)

\* C9 (as stated): the message list of the request starts with the system
\* message holding the instructions as given, and has one message per input
\* item after it.
C9_OneMessagePerItem ==
  pc = "fetch" =>
    /\ request.messages[1] = SystemMessage(params.instructions)
    /\ Len(request.messages) = Len(params.input) + 1

\* C10 (as stated): the content of an item's message is taken from the
\* fragment list when content is one (assembled with either separator), else
\* from the string content, else from the string text, else it is empty.
C10_ContentPrecedence ==
  (pc = "fetch" /\ Len(request.messages) = Len(params.input) + 1) =>
    \A i \in 1..Len(params.input) :
      LET item == params.input[i]
          m == request.messages[i + 1]
      IN IF item.content.t = "array"
         THEN m.content \in {textContent(item.content.a),
                             joinNewline(fragmentTexts(item.content.a))}
         ELSE IF item.content.t = "string" THEN m.content = item.content.s
         ELSE IF item.text.t = "string" THEN m.content = item.text.s
         ELSE m.content = <<>>

\* The text the consumer has received: the texts of the emitted events, in
\* the order of emission.
RECURSIVE EmittedText(_)
EmittedText(evs) ==
  IF evs = <<>> THEN <<>> ELSE Head(evs).output \o EmittedText(Tail(evs))

\* C11 (as stated): the text delivered to the consumer holds no text of a
\* <think>...</think> span of the upstream output, also when the opening and
\* the closing marker came in different data chunks: filtering the whole
\* delivered text removes nothing from it.
C11_NoThinkTextEmitted ==
  filterThinkTags(EmittedText(events)) = EmittedText(events)

\* An id made from the clock, not taken from the upstream.
ClockDerived(id) == \E t \in 0..MaxClock : id \in {FallbackId(t), ErrorId(t)}

\* C13 (as stated): once the upstream has supplied an id in a chunk, no
\* emitted event carries an id made from the clock and the running id is no
\* such id either, so that the events of the run are the same at whatever
\* time the input is decoded.
C13_ClockIdOnlyWithoutUpstreamId ==
  [][(VisitsParsed /\ Data.kind = "object" /\ Truthy(Data.id)) =>
       /\ ~ClockDerived(responseId')
       /\ \A i \in 1..Len(events') :
            ~ClockDerived(events'[i].id) /\ ~ClockDerived(events'[i].respId)]_vars

\* The two ways a failed run may end: the error is raised to the caller and
\* nothing is yielded, or one terminal event with status "error" is yielded
\* and the run returns.
RaisesToCaller ==
  /\ pc' = "raised"
  /\ raised' # NoError
  /\ events' = events
YieldsErrorEvent ==
  /\ pc' = "done"
  /\ raised' = NoError
  /\ Len(events') = Len(events) + 1
  /\ SubSeq(events', 1, Len(events)) = events
  /\ Last(events').type = "response.completed"
  /\ Last(events').status = "error"

\* C14: a rejected fetch, a non-success status and a read that fails in the
\* middle of the body all end the run the same way, fixed per
\* implementation: part_000 raises to the caller, client.ts yields one
\* terminal event with status "error" and returns. The run never just ends
\* with nothing said, and a failed run holds no event with status
\* "completed".
C14_OneFailurePolicy ==
  [][(FetchThrows \/ FetchNotOk \/ ReadThrows) =>
       /\ IF variant = V_PART THEN RaisesToCaller ELSE YieldsErrorEvent
       /\ \A i \in 1..Len(events') : events'[i].status # "completed"]_vars

\* part_000 has raised in the middle of a body, after content events.
C14_Witness ==
  /\ pc = "raised"
  /\ raised = NetworkError
  /\ Streaming
  /\ events # <<>>

\* C18: every emitted event has one of the two types and one of the three
\* statuses; its status is "in_progress" exactly when its type is
\* "response.output_item.done", and "completed" or "error" exactly when its
\* type is "response.completed".
C18_TypeAndStatusAgree ==
  \A i \in 1..Len(events) :
    LET e == events[i]
    IN /\ e.type \in {"response.output_item.done", "response.completed"}
       /\ e.status \in {"in_progress", "completed", "error"}
       /\ e.status = "in_progress" <=> e.type = "response.output_item.done"
       /\ e.status \in {"completed", "error"} <=> e.type = "response.completed"

\* A stream that yielded content events and then its terminal event.
C18_Witness ==
  /\ pc = "done"
  /\ Streaming
  /\ Len(events) >= 2
  /\ events[1].type = "response.output_item.done"
  /\ Last(events).status = "completed"

\* C19 (as stated): the role of an item's message is the item's role when
\* that is a string, the empty string included, and "user" in every other
\* case; no message has a role that is not a string.
C19_RoleStringOrUser ==
  (pc = "fetch" /\ Len(request.messages) = Len(params.input) + 1) =>
    \A i \in 1..Len(params.input) :
      LET item == params.input[i]
          m == request.messages[i + 1]
      IN /\ m.role.t = "string"
         /\ m.role = (IF item.role.t = "string" THEN item.role ELSE Str(<<"user">>))

\* The texts of the text-bearing fragments of a fragment list, in order.
RECURSIVE InputTexts(_)
InputTexts(fragments) ==
  IF fragments = <<>> THEN <<>>
  ELSE LET c == Head(fragments)
       IN (IF c.type = "input_text" /\ c.text.t = "string" THEN <<c.text.s>> ELSE <<>>)
          \o InputTexts(Tail(fragments))

\* The strings of a list one after the other, with nothing between them.
RECURSIVE Concatenated(_)
Concatenated(strs) ==
  IF strs = <<>> THEN <<>> ELSE Head(strs) \o Concatenated(Tail(strs))

\* The strings of a list one after the other, with a line break between them.
RECURSIVE LineJoined(_)
LineJoined(strs) ==
  IF strs = <<>> THEN <<>>
  ELSE IF Len(strs) = 1 THEN Head(strs)
  ELSE Head(strs) \o <<"\n">> \o LineJoined(Tail(strs))

\* C20 (as stated): the content of the message of an item whose content is
\* a fragment list (and whose text is no string) is made of the texts of its
\* fragments of type "input_text" only, in order, joined with nothing or
\* with line breaks; a fragment of another type, "input_image" say, adds
\* nothing to it, whether or not it has a text field.
C20_OnlyTextFragments ==
  (pc = "fetch" /\ Len(request.messages) = Len(params.input) + 1) =>
    \A i \in 1..Len(params.input) :
      LET item == params.input[i]
          m == request.messages[i + 1]
      IN (item.content.t = "array" /\ item.text.t # "string") =>
           m.content \in {Concatenated(InputTexts(item.content.a)),
                          LineJoined(InputTexts(item.content.a))}

\* Position i of a text lies in a span: an opening marker at or before i has
\* a closing marker after it, at or after i, and none between it and i.
InSpan(t, i) ==
  \E o \in 1..i :
    /\ t[o] = "<think>"
    /\ \A m \in (o + 1)..(i - 1) : t[m] # "</think>"
    /\ \E c \in (o + 1)..Len(t) : c >= i /\ t[c] = "</think>"

\* The text outside the spans, from position i on.
RECURSIVE OutsideSpans(_, _)
OutsideSpans(t, i) ==
  IF i > Len(t) THEN <<>>
  ELSE (IF InSpan(t, i) THEN <<>> ELSE <<t[i]>>) \o OutsideSpans(t, i + 1)

\* C12: filterThinkTags returns the text without its spans, a span running
\* from an opening marker to the nearest closing marker after it, line
\* breaks or not, however many there are; the text outside the spans is kept
\* as it is, an opening marker without a closing marker after it included.
\* "a<think>x</think>b" gives "ab", "a<think>x\ny</think>b<think>z</think>c"
\* gives "abc", "a<think>unterminated" is returned unchanged.
C12_FilterRemovesSpans ==
  filtered # NotFiltered =>
    /\ filtered = OutsideSpans(raw, 1)
    /\ raw = <<"a", "<think>", "x", "</think>", "b">> => filtered = <<"a", "b">>
    /\ raw = <<"a", "<think>", "x", "\n", "y", "</think>", "b", "<think>", "z",
               "</think>", "c">> => filtered = <<"a", "b", "c">>
    /\ raw = <<"a", "<think>", "unterminated">> => filtered = raw
    /\ (\A i \in 1..Len(raw) : raw[i] # "</think>") => filtered = raw

\* Two spans, one of them over a line break, have been removed.
C12_Witness ==
  /\ raw = <<"a", "<think>", "x", "\n", "y", "</think>", "b", "<think>", "z",
             "</think>", "c">>
  /\ filtered = <<"a", "b", "c">>

\* The events the for loop yields for a list of lines visited in order, and
\* the running id it ends with.
RECURSIVE LinesDecoded(_, _, _, _)
LinesDecoded(v, ls, id, first) ==
  IF ls = <<>> THEN [emit |-> <<>>, id |-> id]
  ELSE LET r == lineResult(v, Head(ls), id, first)
           rest == LinesDecoded(v, Tail(ls), r.responseId, r.isFirstChunk)
       IN [emit |-> r.emit \o rest.emit, id |-> rest.id]

\* The events of a body delivered in one piece: those of its terminated
\* lines, then the terminal event.
WholeDecoded(v, w, id) ==
  LET pieces == split(w)
      d == LinesDecoded(v, SubSeq(pieces, 1, Len(pieces) - 1), id, TRUE)
  IN Append(d.emit, completedEvent(v, d.id))

\* C15: however the transport cuts the body into chunks (inside a line,
\* before or after a newline, with empty chunks between), the events of the
\* finished run are those of the body delivered in one piece.
C15_SplitIndependent ==
  pc = "done" => events = WholeDecoded(variant, wire, FallbackId(0))

\* A body of two data lines has been decoded to two content events and the
\* terminal event.
C15_Witness ==
  /\ pc = "done"
  /\ Len(split(wire)) = 3
  /\ Len(events) = 3

\* C16: visiting a blank line or the line "data: [DONE]" yields no event and
\* leaves the running id, the first-chunk flag and the buffer as they were;
\* the loop goes on with the lines that follow. The terminal event is
\* yielded only when nothing of the body is left to read or to visit.
C16_SentinelChangesNothing ==
  [][/\ (pc = "line" /\ trimAtoms(Head(lines)) \in {<<>>, <<AData, ADone>>}) =>
          /\ events' = events
          /\ raised' = raised
          /\ responseId' = responseId
          /\ isFirstChunk' = isFirstChunk
          /\ buffer' = buffer
          /\ pc' \in {"line", "read"}
     /\ (events' # events /\ Last(events').type = "response.completed") =>
          /\ pc = "read"
          /\ wirePos = Len(wire)
          /\ pc' = "done"]_vars

\* The content line after "data: [DONE]" has yielded its event, and the
\* terminal event came after it, at the end of the body.
C16_Witness ==
  /\ pc = "done"
  /\ wire = <<AData, ADone, ANl,
              AData, AHead(Doc(Str(<<"r2">>), "message", Str(<<"a">>), Undefined)),
              ATail(Doc(Str(<<"r2">>), "message", Str(<<"a">>), Undefined)), ANl>>
  /\ Len(events) = 2
  /\ events[1].output = <<"a">>
  /\ events[2].status = "completed"

\* C17: two invocations of responses on one client, interleaved at will,
\* each yield the events they would yield alone: a step of one leaves the
\* buffer, the running id, the first-chunk flag and all else of the other as
\* they were, a switch hands each its own back, and each finished one has
\* yielded the events of its own body.
C17_InvocationsIndependent ==
  [][/\ \/ other' = other
        \/ /\ other' = Frame
           /\ buffer' = other.buffer
           /\ responseId' = other.responseId
           /\ isFirstChunk' = other.isFirstChunk
           /\ lines' = other.lines
           /\ events' = other.events
     /\ pc' = "done" => events' = WholeDecoded(variant, wire', FallbackId(0))
     /\ other'.pc = "done" =>
          other'.events = WholeDecoded(variant, other'.wire, FallbackId(0))]_vars

\* Both invocations, reading different bodies, have finished, each with
\* content events and its terminal event.
C17_Witness ==
  /\ pc = "done"
  /\ other.pc = "done"
  /\ wire # other.wire
  /\ Len(events) >= 2
  /\ Len(other.events) >= 2

\* A body up to and including its last newline.
WithoutTail(w) ==
  LET pieces == split(w)
  IN Terminated(SubSeq(pieces, 1, Len(pieces) - 1))

\* What follows the last newline of a body.
TailOf(w) == split(w)[Len(split(w))]

\* C21: when the stream has ended normally, the text after the last newline
\* of the body is still in the buffer and has yielded nothing: the events
\* are those of the body without that text, the terminal event last, also
\* when that text is a whole "data: {...}" line.
C21_TailNeverDecoded ==
  pc = "done" =>
    /\ buffer = TailOf(wire)
    /\ events = WholeDecoded(variant, WithoutTail(wire), FallbackId(0))
    /\ WithoutTail(wire) = <<>> => Len(events) = 1

\* A body that is one data line without its newline has ended with the
\* terminal event alone.
C21_Witness ==
  /\ pc = "done"
  /\ wire = <<AData, AJson(Doc(Str(<<"r1">>), "message", Str(<<"a">>), Undefined))>>
  /\ Len(events) = 1
  /\ events[1].status = "completed"

\* C22 (as stated): in every emitted event, of whatever kind, the top-level
\* id is the id of its response, however the clock moves between the
\* evaluations of the two fields.
C22_IdEqualsResponseId ==
  \A i \in 1..Len(events) : events[i].id = events[i].respId

====
